---- MODULE Spec2Model ----
(***************************************************************************)
(* provider-talos: the Secrets, Configuration, ConfigurationApply and      *)
(* Bootstrap managed-resource controllers (external.Observe / Create /     *)
(* Update / Delete) run by the managed-resource reconciler, one pass at a  *)
(* time per record.                                                        *)
(*                                                                         *)
(* A record is (Spec.ForProvider, Status.AtProvider).  A reconciliation    *)
(* pass reads the stored record, calls Observe and then the handler the    *)
(* observation selects; the handler changes the in-memory Status, which    *)
(* the reconciler then writes back (a write that can fail).                *)
(***************************************************************************)
EXTENDS Integers, Sequences, FiniteSets, TLC

\* ------------------------------------------------------------------ bounds
\* Number of reconciliation passes over one record (also the clock range).
MaxClock == 4
\* Longest machineConfigurationInput, in tokens.
MaxDocLen == 2

\* --------------------------------------------------------------- constants
\* A nil *metav1.Time.
NoTime == 0
\* A nil *string.
NoString == "<nil>"
\* A nil error.
NoErr == "<nil error>"
\* No talosclient.Client was built.
NoClient == [built |-> FALSE]
\* The substring Observe and applyConfigurationToNode search for.
PlaceholderMarker == "# This should be populated"
\* The default Talos API port appended to the node.
DefaultPort == ":50000"

BoolToNat(b) == IF b THEN 1 ELSE 0

\* ------------------------------------------------------------- input sets
Nodes == {"10.0.0.9"}
Endpoints == {NoString, "", "10.0.0.9:50001"}
ClientCertificates == {"", "insecure", "PEM", "garbage"}
CACertificates == {"insecure", "PEM"}
ClientKeys == {"KEY", "garbage"}
ClientConfigurations ==
  [caCertificate : CACertificates,
   clientCertificate : ClientCertificates,
   clientKey : ClientKeys]

\* tls.X509KeyPair: succeeds only on a PEM certificate with its PEM key.
X509KeyPair(certPEM, keyPEM) == certPEM = "PEM" /\ keyPEM = "KEY"

VARIABLES
  now,          \* wall clock, read by metav1.Now()
  bs_spec,      \* Bootstrap Spec.ForProvider
  bs_status,    \* Bootstrap Status.AtProvider as stored
  bs_pc,        \* position of the Bootstrap record's pass
  bs_obs,       \* the ExternalObservation of the pass
  bs_deleting,  \* deletion of the Bootstrap record was requested
  bs_last,      \* history: the last Bootstrap handler call
  bs_rpcs,      \* history: bootstrap RPCs the node acknowledged
  bs_seen,      \* history: Observe has reported resourceExists
  bs_creates,   \* history: calls of external.Create
  ca_spec,      \* ConfigurationApply Spec.ForProvider
  ca_status,    \* ConfigurationApply Status.AtProvider as stored
  ca_pc,        \* position of the ConfigurationApply record's pass
  ca_obs,       \* the ExternalObservation of the pass
  ca_deleting,  \* deletion of the ConfigurationApply record was requested
  ca_last,      \* history: the last ConfigurationApply handler call
  ca_sent,      \* history: the document of the last acknowledged apply RPC
  sec_spec,     \* Secrets Spec.ForProvider
  sec_status,   \* Secrets Status.AtProvider as stored
  sec_pc,       \* position of the Secrets record's pass
  sec_obs,      \* the ExternalObservation of the pass, with the condition set
  sec_deleting, \* deletion of the Secrets record was requested
  sec_last,     \* history: the last Secrets handler call
  cfg_src,      \* which of the two configuration controller sources runs
  cfg_spec,     \* Configuration Spec.ForProvider
  cfg_status,   \* Configuration Status.AtProvider as stored
  cfg_pc,       \* position of the Configuration record's pass
  cfg_obs,      \* the ExternalObservation of the pass, with its error
  cfg_deleting, \* deletion of the Configuration record was requested
  cfg_last,     \* history: the last Configuration handler call
  cfg_creates   \* history: calls of external.Create

bs_vars == <<bs_spec, bs_status, bs_pc, bs_obs, bs_deleting, bs_last, bs_rpcs, bs_seen,
            bs_creates>>

ca_vars == <<ca_spec, ca_status, ca_pc, ca_obs, ca_deleting, ca_last, ca_sent>>

sec_vars == <<sec_spec, sec_status, sec_pc, sec_obs, sec_deleting, sec_last>>

cfg_vars == <<cfg_src, cfg_spec, cfg_status, cfg_pc, cfg_obs, cfg_deleting, cfg_last,
             cfg_creates>>

\* ============================================================== Bootstrap

BootstrapParameters ==
  [node : Nodes, endpoint : Endpoints, clientConfiguration : ClientConfigurations]

\* BootstrapObservation of a fresh record.
BootstrapObservation == [bootstrapped |-> FALSE, bootstrapTime |-> NoTime]

NoObservation == [resourceExists |-> FALSE, resourceUpToDate |-> FALSE]

NoCall ==
  [op |-> "none", err |-> NoErr, client |-> NoClient, rpcIssued |-> FALSE,
   rpcOk |-> FALSE, pre |-> BootstrapObservation, post |-> BootstrapObservation]

\* external.Observe of the bootstrap controller.
BootstrapObserveUpToDateAlways(st) ==
  LET resourceExists == st.bootstrapped /\ st.bootstrapTime # NoTime
  IN  [resourceExists |-> resourceExists, resourceUpToDate |-> TRUE]

BootstrapObserveForgetful(st) ==
  [resourceExists |-> FALSE, resourceUpToDate |-> FALSE]

BootstrapObserve(st) ==
  LET clusterBootstrapped == st.bootstrapped
      bootstrapTimeExists == st.bootstrapTime # NoTime
      resourceExists == clusterBootstrapped /\ bootstrapTimeExists
      resourceUpToDate == resourceExists
  IN  [resourceExists |-> resourceExists, resourceUpToDate |-> resourceUpToDate]

\* The endpoint bootstrapTalosCluster dials.
BootstrapEndpoint(spec) ==
  IF spec.endpoint # NoString /\ spec.endpoint # ""
  THEN spec.endpoint
  ELSE spec.node \o DefaultPort

\* The talosclient.Client bootstrapTalosCluster builds; closed by the defer.
BootstrapClientLeftOpen(spec) ==
  LET cc == spec.clientConfiguration
  IN  IF cc.clientCertificate = "insecure" \/ cc.caCertificate = "insecure"
      THEN [built |-> TRUE, endpoint |-> BootstrapEndpoint(spec),
            insecureSkipVerify |-> TRUE, certificate |-> "", serverName |-> "",
            closed |-> FALSE]
      ELSE [built |-> TRUE, endpoint |-> BootstrapEndpoint(spec),
            insecureSkipVerify |-> FALSE, certificate |-> cc.clientCertificate,
            serverName |-> spec.node, closed |-> FALSE]

BootstrapClient(spec) ==
  LET cc == spec.clientConfiguration
  IN  IF cc.clientCertificate = "insecure" \/ cc.caCertificate = "insecure"
      THEN [built |-> TRUE, endpoint |-> BootstrapEndpoint(spec),
            insecureSkipVerify |-> TRUE, certificate |-> "", serverName |-> "",
            closed |-> TRUE]
      ELSE [built |-> TRUE, endpoint |-> BootstrapEndpoint(spec),
            insecureSkipVerify |-> FALSE, certificate |-> cc.clientCertificate,
            serverName |-> spec.node, closed |-> TRUE]

\* external.bootstrapTalosCluster; newOk: talosclient.New succeeds,
\* rpcOk: the node acknowledges the Bootstrap RPC.
bootstrapTalosClusterSkipsParseError(spec, newOk, rpcOk) ==
  LET cc == spec.clientConfiguration
  IN  IF cc.clientCertificate = ""
      THEN [err |-> "clientConfiguration is required", client |-> NoClient,
            rpcIssued |-> FALSE, rpcOk |-> FALSE]
      ELSE IF ~newOk
      THEN [err |-> "failed to create Talos client", client |-> NoClient,
            rpcIssued |-> FALSE, rpcOk |-> FALSE]
      ELSE IF ~rpcOk
      THEN [err |-> "failed to bootstrap Talos cluster", client |-> BootstrapClient(spec),
            rpcIssued |-> TRUE, rpcOk |-> FALSE]
      ELSE [err |-> NoErr, client |-> BootstrapClient(spec),
            rpcIssued |-> TRUE, rpcOk |-> TRUE]

bootstrapTalosCluster(spec, newOk, rpcOk) ==
  LET cc == spec.clientConfiguration
      insecure == cc.clientCertificate = "insecure" \/ cc.caCertificate = "insecure"
  IN  IF cc.clientCertificate = ""
      THEN [err |-> "clientConfiguration is required", client |-> NoClient,
            rpcIssued |-> FALSE, rpcOk |-> FALSE]
      ELSE IF ~insecure /\ ~X509KeyPair(cc.clientCertificate, cc.clientKey)
      THEN [err |-> "failed to create client certificate", client |-> NoClient,
            rpcIssued |-> FALSE, rpcOk |-> FALSE]
      ELSE IF ~newOk
      THEN [err |-> "failed to create Talos client", client |-> NoClient,
            rpcIssued |-> FALSE, rpcOk |-> FALSE]
      ELSE IF ~rpcOk
      THEN [err |-> "failed to bootstrap Talos cluster", client |-> BootstrapClient(spec),
            rpcIssued |-> TRUE, rpcOk |-> FALSE]
      ELSE [err |-> NoErr, client |-> BootstrapClient(spec),
            rpcIssued |-> TRUE, rpcOk |-> TRUE]

\* The status external.Create leaves in the record, given the error of
\* bootstrapTalosCluster.
BootstrapCreateStatusEager(st, err, t) ==
  [bootstrapped |-> TRUE, bootstrapTime |-> t]

BootstrapCreateStatusNoTime(st, err, t) ==
  IF err # NoErr
  THEN st
  ELSE [bootstrapped |-> TRUE, bootstrapTime |-> NoTime]

BootstrapCreateStatus(st, err, t) ==
  IF err # NoErr
  THEN st
  ELSE [bootstrapped |-> TRUE, bootstrapTime |-> t]

\* The status external.Update leaves in the record.
BootstrapUpdateStatusReset(st) == BootstrapObservation

BootstrapUpdateStatusRestamped(st) == [st EXCEPT !.bootstrapTime = NoTime]

BootstrapUpdateStatus(st) == st

\* The status external.Delete leaves in the record.
BootstrapDeleteStatusCleared(st) == BootstrapObservation

BootstrapDeleteStatus(st) == st

\* The handler the reconciler selects after Observe.
Dispatch(obs, deleting) ==
  IF deleting
  THEN IF obs.resourceExists THEN "delete" ELSE "remove"
  ELSE IF ~obs.resourceExists THEN "create"
  ELSE IF ~obs.resourceUpToDate THEN "update"
  ELSE "none"

\* A pass starts: the reconciler reads the record and calls Observe.
BootstrapObservePass ==
  /\ bs_pc = "idle"
  /\ now < MaxClock
  /\ now' = now + 1
  /\ bs_obs' = BootstrapObserve(bs_status)
  /\ bs_seen' = (bs_seen \/ bs_obs'.resourceExists)
  /\ bs_pc' = "observed"
  /\ UNCHANGED <<bs_spec, bs_status, bs_deleting, bs_last, bs_rpcs, bs_creates>>
  /\ UNCHANGED <<ca_vars, sec_vars, cfg_vars>>

\* The pass ends without a handler call: the record is up to date.
BootstrapPassDone ==
  /\ bs_pc = "observed"
  /\ Dispatch(bs_obs, bs_deleting) = "none"
  /\ bs_pc' = "idle"
  /\ UNCHANGED <<now, bs_spec, bs_status, bs_obs, bs_deleting, bs_last, bs_rpcs, bs_seen, bs_creates>>
  /\ UNCHANGED <<ca_vars, sec_vars, cfg_vars>>

\* external.Create, then the reconciler's status write (persistOk).
BootstrapCreateSharedStatus ==
  /\ bs_pc = "observed"
  /\ Dispatch(bs_obs, bs_deleting) = "create"
  /\ \E newOk \in BOOLEAN, rpcOk \in BOOLEAN, persistOk \in BOOLEAN :
       LET r == bootstrapTalosCluster(bs_spec, newOk, rpcOk)
           post == BootstrapCreateStatus(bs_status, r.err, now)
       IN  /\ bs_last' = [op |-> "Create", err |-> r.err, client |-> r.client,
                          rpcIssued |-> r.rpcIssued, rpcOk |-> r.rpcOk,
                          pre |-> bs_status, post |-> post]
           /\ bs_rpcs' = bs_rpcs + BoolToNat(r.rpcOk)
           /\ bs_status' = IF persistOk THEN post ELSE bs_status
           /\ ca_status' = [ca_status EXCEPT !.applied = (r.err = NoErr)]
  /\ bs_creates' = bs_creates + 1
  /\ bs_pc' = "idle"
  /\ UNCHANGED <<now, bs_spec, bs_obs, bs_deleting, bs_seen>>
  /\ UNCHANGED <<ca_spec, ca_pc, ca_obs, ca_deleting, ca_last, ca_sent>>
  /\ UNCHANGED <<sec_vars, cfg_vars>>

BootstrapCreate ==
  /\ bs_pc = "observed"
  /\ Dispatch(bs_obs, bs_deleting) = "create"
  /\ \E newOk \in BOOLEAN, rpcOk \in BOOLEAN, persistOk \in BOOLEAN :
       LET r == bootstrapTalosCluster(bs_spec, newOk, rpcOk)
           post == BootstrapCreateStatus(bs_status, r.err, now)
       IN  /\ bs_last' = [op |-> "Create", err |-> r.err, client |-> r.client,
                          rpcIssued |-> r.rpcIssued, rpcOk |-> r.rpcOk,
                          pre |-> bs_status, post |-> post]
           /\ bs_rpcs' = bs_rpcs + BoolToNat(r.rpcOk)
           /\ bs_status' = IF persistOk THEN post ELSE bs_status
  /\ bs_creates' = bs_creates + 1
  /\ bs_pc' = "idle"
  /\ UNCHANGED <<now, bs_spec, bs_obs, bs_deleting, bs_seen>>
  /\ UNCHANGED <<ca_vars, sec_vars, cfg_vars>>

\* external.Update, called on a record observed to exist.  Observe never
\* reports such a record as out of date, so Dispatch never selects Update for
\* this kind; the call is allowed on any existing record so that the handler's
\* effect is part of the behaviours.
BootstrapUpdate ==
  /\ bs_pc = "observed"
  /\ ~bs_deleting
  /\ bs_obs.resourceExists
  /\ bs_last' = [op |-> "Update", err |-> NoErr, client |-> NoClient,
                 rpcIssued |-> FALSE, rpcOk |-> FALSE,
                 pre |-> bs_status, post |-> BootstrapUpdateStatus(bs_status)]
  /\ bs_status' = BootstrapUpdateStatus(bs_status)
  /\ bs_pc' = "idle"
  /\ UNCHANGED <<now, bs_spec, bs_obs, bs_deleting, bs_rpcs, bs_seen, bs_creates>>
  /\ UNCHANGED <<ca_vars, sec_vars, cfg_vars>>

\* The operator asks for the record to be deleted.
BootstrapRequestDelete ==
  /\ bs_pc = "idle"
  /\ ~bs_deleting
  /\ bs_deleting' = TRUE
  /\ UNCHANGED <<now, bs_spec, bs_status, bs_pc, bs_obs, bs_last, bs_rpcs, bs_seen, bs_creates>>
  /\ UNCHANGED <<ca_vars, sec_vars, cfg_vars>>

\* external.Delete, called while the record is observed to exist.
BootstrapDelete ==
  /\ bs_pc = "observed"
  /\ Dispatch(bs_obs, bs_deleting) = "delete"
  /\ bs_last' = [op |-> "Delete", err |-> NoErr, client |-> NoClient,
                 rpcIssued |-> FALSE, rpcOk |-> FALSE,
                 pre |-> bs_status, post |-> BootstrapDeleteStatus(bs_status)]
  /\ bs_status' = BootstrapDeleteStatus(bs_status)
  /\ bs_pc' = "idle"
  /\ UNCHANGED <<now, bs_spec, bs_obs, bs_deleting, bs_rpcs, bs_seen, bs_creates>>
  /\ UNCHANGED <<ca_vars, sec_vars, cfg_vars>>

\* The record is released once it is observed not to exist.
BootstrapRemove ==
  /\ bs_pc = "observed"
  /\ Dispatch(bs_obs, bs_deleting) = "remove"
  /\ bs_pc' = "gone"
  /\ UNCHANGED <<now, bs_spec, bs_status, bs_obs, bs_deleting, bs_last, bs_rpcs, bs_seen, bs_creates>>
  /\ UNCHANGED <<ca_vars, sec_vars, cfg_vars>>

BootstrapNext ==
  \/ BootstrapObservePass
  \/ BootstrapPassDone
  \/ BootstrapCreate
  \/ BootstrapUpdate
  \/ BootstrapRequestDelete
  \/ BootstrapDelete
  \/ BootstrapRemove

\* ===================================================== ConfigurationApply

\* A machineConfigurationInput is a string, here a sequence of lines.
Lines == {PlaceholderMarker, "version: v1alpha1"}
Documents == UNION {[1..n -> Lines] : n \in 0..MaxDocLen}

\* strings.Contains(doc, line)
Contains(doc, line) == \E i \in 1..Len(doc) : doc[i] = line

\* No document was sent.
NoDocument == <<"<none>">>

ApplyModes == {NoString, "auto", "reboot", "no_reboot", "staged"}

ConfigurationApplyParameters ==
  [node : Nodes, endpoint : Endpoints, applyMode : ApplyModes,
   machineConfigurationInput : Documents,
   clientConfiguration : ClientConfigurations]

\* ConfigurationApplyObservation of a fresh record.
ConfigurationApplyObservation == [applied |-> FALSE, lastAppliedTime |-> NoTime]

ApplyNoCall ==
  [op |-> "none", err |-> NoErr, client |-> NoClient, rpcIssued |-> FALSE,
   rpcOk |-> FALSE, data |-> NoDocument, mode |-> NoString,
   input |-> NoDocument, applyMode |-> NoString,
   pre |-> ConfigurationApplyObservation, post |-> ConfigurationApplyObservation]

\* external.Observe of the configurationapply controller.
ApplyObserveIgnoresInput(spec, st) ==
  [resourceExists |-> st.applied, resourceUpToDate |-> st.applied]

ApplyObserveExistsOnValid(spec, st) ==
  LET hasValidConfig == spec.machineConfigurationInput # <<>> /\
                        ~Contains(spec.machineConfigurationInput, PlaceholderMarker)
  IN  [resourceExists |-> st.applied /\ hasValidConfig,
       resourceUpToDate |-> st.applied /\ hasValidConfig]

ApplyObserve(spec, st) ==
  LET configApplied == st.applied
      appliedTimeExists == TRUE
      resourceExists == configApplied /\ appliedTimeExists
      hasValidConfig == spec.machineConfigurationInput # <<>> /\
                        ~Contains(spec.machineConfigurationInput, PlaceholderMarker)
      resourceUpToDate == resourceExists /\ hasValidConfig
  IN  [resourceExists |-> resourceExists, resourceUpToDate |-> resourceUpToDate]

\* The talosclient.Client applyConfigurationToNode builds; closed by the defer.
ApplyClient(spec) ==
  [built |-> TRUE, endpoint |-> spec.node \o DefaultPort,
   insecureSkipVerify |-> TRUE,
   certificate |-> spec.clientConfiguration.clientCertificate,
   serverName |-> spec.node, closed |-> TRUE]

\* external.applyConfigurationToNode; newOk: talosclient.New succeeds,
\* rpcOk: the node acknowledges the ApplyConfiguration RPC.
applyConfigurationToNodeUnvalidated(spec, newOk, rpcOk) ==
  LET configInput == spec.machineConfigurationInput
      clientConfig == spec.clientConfiguration
      none == [client |-> NoClient, rpcIssued |-> FALSE, rpcOk |-> FALSE,
               data |-> NoDocument, mode |-> NoString]
      sent == [client |-> ApplyClient(spec), rpcIssued |-> TRUE,
               data |-> configInput, mode |-> "no_reboot"]
  IN  IF clientConfig.clientCertificate = ""
      THEN [err |-> "clientConfiguration is required"] @@ none
      ELSE IF ~X509KeyPair(clientConfig.clientCertificate, clientConfig.clientKey)
      THEN [err |-> "failed to create client certificate"] @@ none
      ELSE IF ~newOk
      THEN [err |-> "failed to create Talos client"] @@ none
      ELSE IF ~rpcOk
      THEN [err |-> "failed to apply configuration to Talos node", rpcOk |-> FALSE] @@ sent
      ELSE [err |-> NoErr, rpcOk |-> TRUE] @@ sent

applyConfigurationToNode(spec, newOk, rpcOk) ==
  LET configInput == spec.machineConfigurationInput
      clientConfig == spec.clientConfiguration
      none == [client |-> NoClient, rpcIssued |-> FALSE, rpcOk |-> FALSE,
               data |-> NoDocument, mode |-> NoString]
      sent == [client |-> ApplyClient(spec), rpcIssued |-> TRUE,
               data |-> configInput, mode |-> "no_reboot"]
  IN  IF configInput = <<>> \/ Contains(configInput, PlaceholderMarker)
      THEN [err |-> "machineConfigurationInput is empty or contains placeholder text"] @@ none
      ELSE IF clientConfig.clientCertificate = ""
      THEN [err |-> "clientConfiguration is required"] @@ none
      ELSE IF ~X509KeyPair(clientConfig.clientCertificate, clientConfig.clientKey)
      THEN [err |-> "failed to create client certificate"] @@ none
      ELSE IF ~newOk
      THEN [err |-> "failed to create Talos client"] @@ none
      ELSE IF ~rpcOk
      THEN [err |-> "failed to apply configuration to Talos node", rpcOk |-> FALSE] @@ sent
      ELSE [err |-> NoErr, rpcOk |-> TRUE] @@ sent

\* The status external.Create and external.Update leave in the record, given
\* the error of applyConfigurationToNode.
ApplyStatusEager(st, err, t) == [st EXCEPT !.applied = TRUE]

ApplyStatusResetOnError(st, err, t) == [st EXCEPT !.applied = (err = NoErr)]

ApplyStatusNeverApplied(st, err, t) == st

ApplyStatus(st, err, t) ==
  IF err # NoErr
  THEN st
  ELSE [st EXCEPT !.applied = TRUE]

\* The status external.Delete leaves in the record.
ApplyDeleteStatus(st) == st

\* A pass starts: the reconciler reads the record and calls Observe.
ApplyObservePass ==
  /\ ca_pc = "idle"
  /\ now < MaxClock
  /\ now' = now + 1
  /\ ca_obs' = ApplyObserve(ca_spec, ca_status)
  /\ ca_pc' = "observed"
  /\ UNCHANGED <<ca_spec, ca_status, ca_deleting, ca_last, ca_sent>>
  /\ UNCHANGED <<bs_vars, sec_vars, cfg_vars>>

\* The pass ends without a handler call: the record is up to date.
ApplyPassDone ==
  /\ ca_pc = "observed"
  /\ Dispatch(ca_obs, ca_deleting) = "none"
  /\ ca_pc' = "idle"
  /\ UNCHANGED <<now, ca_spec, ca_status, ca_obs, ca_deleting, ca_last, ca_sent>>
  /\ UNCHANGED <<bs_vars, sec_vars, cfg_vars>>

\* The body shared by external.Create and external.Update, then the
\* reconciler's status write (persistOk).
ApplyCall(op) ==
  /\ \E newOk \in BOOLEAN, rpcOk \in BOOLEAN, persistOk \in BOOLEAN :
       LET r == applyConfigurationToNode(ca_spec, newOk, rpcOk)
           post == ApplyStatus(ca_status, r.err, now)
       IN  /\ ca_last' = [op |-> op, err |-> r.err, client |-> r.client,
                          rpcIssued |-> r.rpcIssued, rpcOk |-> r.rpcOk,
                          data |-> r.data, mode |-> r.mode,
                          input |-> ca_spec.machineConfigurationInput,
                          applyMode |-> ca_spec.applyMode,
                          pre |-> ca_status, post |-> post]
           /\ ca_sent' = IF r.rpcOk THEN r.data ELSE ca_sent
           /\ ca_status' = IF persistOk THEN post ELSE ca_status
  /\ ca_pc' = "idle"
  /\ UNCHANGED <<now, ca_spec, ca_obs, ca_deleting>>

\* external.Create
ApplyCreate ==
  /\ ca_pc = "observed"
  /\ Dispatch(ca_obs, ca_deleting) = "create"
  /\ ApplyCall("Create")
  /\ UNCHANGED <<bs_vars, sec_vars, cfg_vars>>

\* external.Update
ApplyUpdate ==
  /\ ca_pc = "observed"
  /\ Dispatch(ca_obs, ca_deleting) = "update"
  /\ ApplyCall("Update")
  /\ UNCHANGED <<bs_vars, sec_vars, cfg_vars>>

\* The operator changes machineConfigurationInput between two passes.
ApplySpecChange ==
  /\ ca_pc = "idle"
  /\ ~ca_deleting
  /\ \E doc \in Documents \ {ca_spec.machineConfigurationInput} :
       ca_spec' = [ca_spec EXCEPT !.machineConfigurationInput = doc]
  /\ UNCHANGED <<now, ca_status, ca_pc, ca_obs, ca_deleting, ca_last, ca_sent>>
  /\ UNCHANGED <<bs_vars, sec_vars, cfg_vars>>

\* The operator asks for the record to be deleted.
ApplyRequestDelete ==
  /\ ca_pc = "idle"
  /\ ~ca_deleting
  /\ ca_deleting' = TRUE
  /\ UNCHANGED <<now, ca_spec, ca_status, ca_pc, ca_obs, ca_last, ca_sent>>
  /\ UNCHANGED <<bs_vars, sec_vars, cfg_vars>>

\* external.Delete, called while the record is observed to exist.
ApplyDeleteResetsMachine ==
  /\ ca_pc = "observed"
  /\ Dispatch(ca_obs, ca_deleting) = "delete"
  /\ ca_last' = [op |-> "Delete", err |-> NoErr, client |-> ApplyClient(ca_spec),
                 rpcIssued |-> TRUE, rpcOk |-> TRUE,
                 data |-> NoDocument, mode |-> NoString,
                 input |-> ca_spec.machineConfigurationInput,
                 applyMode |-> ca_spec.applyMode,
                 pre |-> ca_status, post |-> ApplyDeleteStatus(ca_status)]
  /\ ca_status' = ApplyDeleteStatus(ca_status)
  /\ ca_pc' = "idle"
  /\ UNCHANGED <<now, ca_spec, ca_obs, ca_deleting, ca_sent>>
  /\ UNCHANGED <<bs_vars, sec_vars, cfg_vars>>

ApplyDelete ==
  /\ ca_pc = "observed"
  /\ Dispatch(ca_obs, ca_deleting) = "delete"
  /\ ca_last' = [op |-> "Delete", err |-> NoErr, client |-> NoClient,
                 rpcIssued |-> FALSE, rpcOk |-> FALSE,
                 data |-> NoDocument, mode |-> NoString,
                 input |-> ca_spec.machineConfigurationInput,
                 applyMode |-> ca_spec.applyMode,
                 pre |-> ca_status, post |-> ApplyDeleteStatus(ca_status)]
  /\ ca_status' = ApplyDeleteStatus(ca_status)
  /\ ca_pc' = "idle"
  /\ UNCHANGED <<now, ca_spec, ca_obs, ca_deleting, ca_sent>>
  /\ UNCHANGED <<bs_vars, sec_vars, cfg_vars>>

\* The record is released once it is observed not to exist.
ApplyRemove ==
  /\ ca_pc = "observed"
  /\ Dispatch(ca_obs, ca_deleting) = "remove"
  /\ ca_pc' = "gone"
  /\ UNCHANGED <<now, ca_spec, ca_status, ca_obs, ca_deleting, ca_last, ca_sent>>
  /\ UNCHANGED <<bs_vars, sec_vars, cfg_vars>>

ApplyNext ==
  \/ ApplyObservePass
  \/ ApplyPassDone
  \/ ApplyCreate
  \/ ApplyUpdate
  \/ ApplySpecChange
  \/ ApplyRequestDelete
  \/ ApplyDelete
  \/ ApplyRemove

\* ================================================================ Secrets

\* A nil pointer to a struct.
NilPointer == [nil |-> TRUE]

\* The bundles secrets.NewBundle can draw.
Bundles == {"bundle-1", "bundle-2"}

TalosVersions == {NoString, "v1.10"}

SecretsParameters == [node : {NoString}, talosVersion : TalosVersions]

\* SecretsObservation of a fresh record.
SecretsObservation ==
  [machineSecrets |-> NilPointer, clientConfiguration |-> NilPointer]

\* managed.ConnectionDetails: a set of <<key, value>> pairs.
NoDetails == {}

DetailKeys(details) == {kv[1] : kv \in details}

\* external.generateMachineSecrets; bundle: what secrets.NewBundle draws,
\* ok: it succeeds.
generateMachineSecrets(talosVersion, bundle, ok) ==
  IF ~ok
  THEN [err |-> "failed to generate secrets bundle"]
  ELSE [err |-> NoErr,
        clusterSecrets |-> "{id:id-" \o bundle \o ",secret:secret-" \o bundle \o "}",
        kubernetesSecrets |-> "{ca:" \o bundle \o ",aggregatorCA:" \o bundle \o "}",
        trustdInfo |-> "{token:token-" \o bundle \o "}",
        caCertificate |-> "os.crt:" \o bundle,
        clientCertificate |-> "os.crt:" \o bundle,
        clientKey |-> "os.key:" \o bundle,
        talosConfig |-> "{context:default,ca:os.crt:" \o bundle
                          \o ",crt:os.crt:" \o bundle
                          \o ",key:os.key:" \o bundle \o "}"]

\* The status a generated bundle leaves in the record.
GeneratedStatus(g) ==
  [machineSecrets |-> [clusterSecrets |-> g.clusterSecrets,
                       kubernetesSecrets |-> g.kubernetesSecrets,
                       trustdInfo |-> g.trustdInfo],
   clientConfiguration |-> [caCertificate |-> g.caCertificate,
                            clientCertificate |-> g.clientCertificate,
                            clientKey |-> g.clientKey]]

\* external.Observe of the secrets controller, with the condition it sets.
SecretsObserveUpToDateAlways(st) ==
  LET statusExists == st.machineSecrets # NilPointer /\ st.clientConfiguration # NilPointer
  IN  [resourceExists |-> statusExists, resourceUpToDate |-> TRUE,
       connectionDetails |-> NoDetails, condition |-> "Available"]

SecretsObserveNeverExists(st) ==
  [resourceExists |-> FALSE, resourceUpToDate |-> FALSE,
   connectionDetails |-> NoDetails, condition |-> "Unavailable"]

SecretsObserveAlwaysAvailable(st) ==
  LET statusExists == st.machineSecrets # NilPointer /\ st.clientConfiguration # NilPointer
      connectionDetails ==
        IF statusExists
        THEN {<<"ca_certificate", st.clientConfiguration.caCertificate>>,
              <<"client_certificate", st.clientConfiguration.clientCertificate>>,
              <<"client_key", st.clientConfiguration.clientKey>>}
        ELSE NoDetails
  IN  [resourceExists |-> statusExists, resourceUpToDate |-> statusExists,
       connectionDetails |-> connectionDetails, condition |-> "Available"]

SecretsObserveNoDetails(st) ==
  LET statusExists == st.machineSecrets # NilPointer /\ st.clientConfiguration # NilPointer
  IN  [resourceExists |-> statusExists, resourceUpToDate |-> statusExists,
       connectionDetails |-> NoDetails,
       condition |-> IF statusExists THEN "Available" ELSE "Unavailable"]

SecretsObserveNeverUpToDate(st) ==
  LET statusExists == st.machineSecrets # NilPointer /\ st.clientConfiguration # NilPointer
  IN  [resourceExists |-> statusExists, resourceUpToDate |-> FALSE,
       connectionDetails |-> NoDetails, condition |-> "Unavailable"]

SecretsObserve(st) ==
  LET statusExists == st.machineSecrets # NilPointer /\ st.clientConfiguration # NilPointer
      resourceExists == statusExists
      resourceUpToDate == statusExists
      connectionDetails ==
        IF resourceExists /\ st.clientConfiguration # NilPointer
        THEN {<<"ca_certificate", st.clientConfiguration.caCertificate>>,
              <<"client_certificate", st.clientConfiguration.clientCertificate>>,
              <<"client_key", st.clientConfiguration.clientKey>>}
        ELSE NoDetails
  IN  [resourceExists |-> resourceExists, resourceUpToDate |-> resourceUpToDate,
       connectionDetails |-> connectionDetails,
       condition |-> IF resourceExists /\ resourceUpToDate
                     THEN "Available" ELSE "Unavailable"]

\* external.Create of the secrets controller: error, status and published
\* connection details, given the result g of generateMachineSecrets.
SecretsCreateResultThreeKeys(st, g) ==
  IF g.err # NoErr
  THEN [err |-> g.err, status |-> st, connectionDetails |-> NoDetails]
  ELSE [err |-> NoErr, status |-> GeneratedStatus(g),
        connectionDetails |-> {<<"ca_certificate", g.caCertificate>>,
                               <<"client_certificate", g.clientCertificate>>,
                               <<"client_key", g.clientKey>>}]

SecretsCreateResult(st, g) ==
  IF g.err # NoErr
  THEN [err |-> g.err, status |-> st, connectionDetails |-> NoDetails]
  ELSE [err |-> NoErr, status |-> GeneratedStatus(g),
        connectionDetails |-> {<<"ca_certificate", g.caCertificate>>,
                               <<"client_certificate", g.clientCertificate>>,
                               <<"client_key", g.clientKey>>,
                               <<"talos_config", g.talosConfig>>}]

\* external.Update of the secrets controller: error and status.
SecretsUpdateResultSilent(st) == [err |-> NoErr, status |-> st]

SecretsUpdateResult(st) ==
  [err |-> "machine secrets are immutable and cannot be updated", status |-> st]

\* The status external.Delete of the secrets controller leaves in the record.
SecretsDeleteStatus(st) == st

SecretsNoCall ==
  [op |-> "none", err |-> NoErr, connectionDetails |-> NoDetails,
   pre |-> SecretsObservation, post |-> SecretsObservation]

SecretsNoObservation ==
  [resourceExists |-> FALSE, resourceUpToDate |-> FALSE,
   connectionDetails |-> NoDetails, condition |-> "none"]

\* A pass starts: the reconciler reads the record and calls Observe.
SecretsObservePass ==
  /\ sec_pc = "idle"
  /\ now < MaxClock
  /\ now' = now + 1
  /\ sec_obs' = SecretsObserve(sec_status)
  /\ sec_pc' = "observed"
  /\ UNCHANGED <<sec_spec, sec_status, sec_deleting, sec_last>>
  /\ UNCHANGED <<bs_vars, ca_vars, cfg_vars>>

\* The pass ends without a handler call: the record is up to date.
SecretsPassDone ==
  /\ sec_pc = "observed"
  /\ Dispatch(sec_obs, sec_deleting) = "none"
  /\ sec_pc' = "idle"
  /\ UNCHANGED <<now, sec_spec, sec_status, sec_obs, sec_deleting, sec_last>>
  /\ UNCHANGED <<bs_vars, ca_vars, cfg_vars>>

\* external.Create, then the reconciler's status write (persistOk).
SecretsCreate ==
  /\ sec_pc = "observed"
  /\ Dispatch(sec_obs, sec_deleting) = "create"
  /\ \E bundle \in Bundles, ok \in BOOLEAN, persistOk \in BOOLEAN :
       LET g == generateMachineSecrets(sec_spec.talosVersion, bundle, ok)
           r == SecretsCreateResult(sec_status, g)
       IN  /\ sec_last' = [op |-> "Create", err |-> r.err,
                           connectionDetails |-> r.connectionDetails,
                           pre |-> sec_status, post |-> r.status]
           /\ sec_status' = IF persistOk THEN r.status ELSE sec_status
  /\ sec_pc' = "idle"
  /\ UNCHANGED <<now, sec_spec, sec_obs, sec_deleting>>
  /\ UNCHANGED <<bs_vars, ca_vars, cfg_vars>>

\* external.Update, called on a record observed to exist.  Observe never
\* reports such a record as out of date, so Dispatch never selects Update for
\* this kind; the call is allowed on any existing record so that the handler's
\* effect is part of the behaviours.
SecretsUpdate ==
  /\ sec_pc = "observed"
  /\ ~sec_deleting
  /\ sec_obs.resourceExists
  /\ LET r == SecretsUpdateResult(sec_status)
     IN  /\ sec_last' = [op |-> "Update", err |-> r.err,
                         connectionDetails |-> NoDetails,
                         pre |-> sec_status, post |-> r.status]
         /\ sec_status' = r.status
  /\ sec_pc' = "idle"
  /\ UNCHANGED <<now, sec_spec, sec_obs, sec_deleting>>
  /\ UNCHANGED <<bs_vars, ca_vars, cfg_vars>>

\* The operator asks for the record to be deleted.
SecretsRequestDelete ==
  /\ sec_pc = "idle"
  /\ ~sec_deleting
  /\ sec_deleting' = TRUE
  /\ UNCHANGED <<now, sec_spec, sec_status, sec_pc, sec_obs, sec_last>>
  /\ UNCHANGED <<bs_vars, ca_vars, cfg_vars>>

\* external.Delete, called while the record is observed to exist.
SecretsDelete ==
  /\ sec_pc = "observed"
  /\ Dispatch(sec_obs, sec_deleting) = "delete"
  /\ sec_last' = [op |-> "Delete", err |-> NoErr, connectionDetails |-> NoDetails,
                  pre |-> sec_status, post |-> SecretsDeleteStatus(sec_status)]
  /\ sec_status' = SecretsDeleteStatus(sec_status)
  /\ sec_pc' = "idle"
  /\ UNCHANGED <<now, sec_spec, sec_obs, sec_deleting>>
  /\ UNCHANGED <<bs_vars, ca_vars, cfg_vars>>

\* The record is released once it is observed not to exist.
SecretsRemove ==
  /\ sec_pc = "observed"
  /\ Dispatch(sec_obs, sec_deleting) = "remove"
  /\ sec_pc' = "gone"
  /\ UNCHANGED <<now, sec_spec, sec_status, sec_obs, sec_deleting, sec_last>>
  /\ UNCHANGED <<bs_vars, ca_vars, cfg_vars>>

SecretsNext ==
  \/ SecretsObservePass
  \/ SecretsPassDone
  \/ SecretsCreate
  \/ SecretsUpdate
  \/ SecretsRequestDelete
  \/ SecretsDelete
  \/ SecretsRemove

\* ========================================================== Configuration

\* The repository holds two sources of the configuration controller.
ControllerSources == {"configuration.go", "part_007"}

\* An empty string where a document is expected.
EmptyDocument == <<>>

ClusterNames == {"", "demo"}

ClusterEndpoints == {"", "https://10.0.0.5:6443"}

MachineTypes == {"controlplane", "worker"}

\* A nil reference, or the name of a Secrets record.
SecretsRefs == {NoString, "S"}

ConfigurationParameters ==
  [clusterName : ClusterNames, clusterEndpoint : ClusterEndpoints,
   machineType : MachineTypes, machineSecretsRef : SecretsRefs]

\* ConfigurationObservation of a fresh record.
ConfigurationObservation ==
  [machineConfiguration |-> EmptyDocument, generatedTime |-> NoTime]

\* external.generateMachineConfiguration of configuration.go: the lines of
\* the template that carry a value.
RenderTemplateDefaultsOnly(spec) ==
  [err |-> NoErr,
   doc |-> <<"# Talos machine configuration",
             "version: v1alpha1",
             "machine:",
             "  type: controlplane",
             "  token: wlzjnq.6ac5m9oibqwlkuuy",
             "cluster:",
             "  id: " \o "talos-cluster-123",
             "  secret: " \o "cluster-secret-456",
             "  controlPlane:",
             "    endpoint: " \o "https://192.168.120.83:6443",
             "  clusterName: " \o "talos-cluster",
             "  token: " \o "bootstrap-token-789">>]

RenderTemplate(spec) ==
  LET clusterName == IF spec.clusterName # "" THEN spec.clusterName ELSE "talos-cluster"
      clusterEndpoint ==
        IF spec.clusterEndpoint # "" THEN spec.clusterEndpoint
        ELSE "https://192.168.120.83:6443"
  IN  [err |-> NoErr,
       doc |-> <<"# Talos machine configuration",
                 "version: v1alpha1",
                 "machine:",
                 "  type: controlplane",
                 "  token: wlzjnq.6ac5m9oibqwlkuuy",
                 "cluster:",
                 "  id: " \o "talos-cluster-123",
                 "  secret: " \o "cluster-secret-456",
                 "  controlPlane:",
                 "    endpoint: " \o clusterEndpoint,
                 "  clusterName: " \o clusterName,
                 "  token: " \o "bootstrap-token-789">>]

\* external.generateMachineConfiguration of part_007.
RenderStub(spec) ==
  IF spec.machineSecretsRef = NoString
  THEN [err |-> "machineSecretsRef is required", doc |-> EmptyDocument]
  ELSE [err |-> NoErr,
        doc |-> <<"# Talos machine configuration would be generated here">>]

generateMachineConfiguration(src, spec) ==
  IF src = "configuration.go" THEN RenderTemplate(spec) ELSE RenderStub(spec)

\* external.Observe of configuration.go: renders into the record it was given.
ConfigurationObserveRendering(st, spec) ==
  LET r == RenderTemplate(spec)
  IN  IF r.err # NoErr
      THEN [err |-> r.err, resourceExists |-> FALSE, resourceUpToDate |-> FALSE,
            status |-> st]
      ELSE [err |-> NoErr, resourceExists |-> TRUE, resourceUpToDate |-> TRUE,
            status |-> [st EXCEPT !.machineConfiguration = r.doc]]

\* external.Observe of part_007: reads the stored status.
ConfigurationObserveStored(st, spec) ==
  LET configExists == st.machineConfiguration # EmptyDocument
      generatedTimeExists == st.generatedTime # NoTime
      resourceExists == configExists /\ generatedTimeExists
  IN  [err |-> NoErr, resourceExists |-> resourceExists,
       resourceUpToDate |-> resourceExists, status |-> st]

ConfigurationObserve(src, st, spec) ==
  IF src = "configuration.go"
  THEN ConfigurationObserveRendering(st, spec)
  ELSE ConfigurationObserveStored(st, spec)

\* external.Create: error and status.  configuration.go does nothing;
\* part_007 renders and does not set generatedTime.
ConfigurationCreateResult(src, st, spec) ==
  IF src = "configuration.go"
  THEN [err |-> NoErr, status |-> st]
  ELSE LET r == RenderStub(spec)
       IN  IF r.err # NoErr
           THEN [err |-> r.err, status |-> st]
           ELSE [err |-> NoErr, status |-> [st EXCEPT !.machineConfiguration = r.doc]]

\* external.Update: error and status.  Both sources render again and do not
\* set generatedTime.
ConfigurationUpdateResultAppending(src, st, spec) ==
  LET r == generateMachineConfiguration(src, spec)
  IN  [err |-> r.err,
       status |-> [st EXCEPT !.machineConfiguration = st.machineConfiguration \o r.doc]]

ConfigurationUpdateResult(src, st, spec) ==
  LET r == generateMachineConfiguration(src, spec)
  IN  IF r.err # NoErr
      THEN [err |-> r.err, status |-> st]
      ELSE [err |-> NoErr, status |-> [st EXCEPT !.machineConfiguration = r.doc]]

\* The status external.Delete leaves in the record.
ConfigurationDeleteStatus(st) == st

ConfigurationNoCall ==
  [op |-> "none", err |-> NoErr, pre |-> ConfigurationObservation,
   post |-> ConfigurationObservation]

ConfigurationNoObservation ==
  [err |-> NoErr, resourceExists |-> FALSE, resourceUpToDate |-> FALSE,
   status |-> ConfigurationObservation]

\* A pass starts: the reconciler reads the record and calls Observe; an
\* error of Observe ends the pass.
ConfigurationObservePass ==
  /\ cfg_pc = "idle"
  /\ now < MaxClock
  /\ now' = now + 1
  /\ cfg_obs' = ConfigurationObserve(cfg_src, cfg_status, cfg_spec)
  /\ cfg_pc' = IF cfg_obs'.err # NoErr THEN "idle" ELSE "observed"
  /\ UNCHANGED <<cfg_src, cfg_spec, cfg_status, cfg_deleting, cfg_last, cfg_creates>>
  /\ UNCHANGED <<bs_vars, ca_vars, sec_vars>>

\* The pass ends without a handler call: the record is up to date, and the
\* reconciler writes the record's status back (persistOk).
ConfigurationPassDone ==
  /\ cfg_pc = "observed"
  /\ Dispatch(cfg_obs, cfg_deleting) = "none"
  /\ \E persistOk \in BOOLEAN :
       cfg_status' = IF persistOk THEN cfg_obs.status ELSE cfg_status
  /\ cfg_pc' = "idle"
  /\ UNCHANGED <<now, cfg_src, cfg_spec, cfg_obs, cfg_deleting, cfg_last, cfg_creates>>
  /\ UNCHANGED <<bs_vars, ca_vars, sec_vars>>

\* external.Create, then the reconciler's status write (persistOk).
ConfigurationCreate ==
  /\ cfg_pc = "observed"
  /\ Dispatch(cfg_obs, cfg_deleting) = "create"
  /\ \E persistOk \in BOOLEAN :
       LET r == ConfigurationCreateResult(cfg_src, cfg_obs.status, cfg_spec)
       IN  /\ cfg_last' = [op |-> "Create", err |-> r.err,
                           pre |-> cfg_obs.status, post |-> r.status]
           /\ cfg_status' = IF persistOk THEN r.status ELSE cfg_status
  /\ cfg_creates' = cfg_creates + 1
  /\ cfg_pc' = "idle"
  /\ UNCHANGED <<now, cfg_src, cfg_spec, cfg_obs, cfg_deleting>>
  /\ UNCHANGED <<bs_vars, ca_vars, sec_vars>>

\* external.Update, called on a record observed to exist.  Neither source's
\* Observe reports such a record as out of date, so Dispatch never selects
\* Update for this kind; the call is allowed on any existing record so that
\* the handler's effect is part of the behaviours.
ConfigurationUpdate ==
  /\ cfg_pc = "observed"
  /\ ~cfg_deleting
  /\ cfg_obs.resourceExists
  /\ \E persistOk \in BOOLEAN :
       LET r == ConfigurationUpdateResult(cfg_src, cfg_obs.status, cfg_spec)
       IN  /\ cfg_last' = [op |-> "Update", err |-> r.err,
                           pre |-> cfg_obs.status, post |-> r.status]
           /\ cfg_status' = IF persistOk THEN r.status ELSE cfg_status
  /\ cfg_pc' = "idle"
  /\ UNCHANGED <<now, cfg_src, cfg_spec, cfg_obs, cfg_deleting, cfg_creates>>
  /\ UNCHANGED <<bs_vars, ca_vars, sec_vars>>

\* The operator edits the Spec between passes.
ConfigurationSpecChange ==
  /\ cfg_pc = "idle"
  /\ ~cfg_deleting
  /\ \E spec \in ConfigurationParameters :
       /\ spec # cfg_spec
       /\ cfg_spec' = spec
  /\ UNCHANGED <<now, cfg_src, cfg_status, cfg_pc, cfg_obs, cfg_deleting, cfg_last,
                 cfg_creates>>
  /\ UNCHANGED <<bs_vars, ca_vars, sec_vars>>

\* The operator asks for the record to be deleted.
ConfigurationRequestDelete ==
  /\ cfg_pc = "idle"
  /\ ~cfg_deleting
  /\ cfg_deleting' = TRUE
  /\ UNCHANGED <<now, cfg_src, cfg_spec, cfg_status, cfg_pc, cfg_obs, cfg_last,
                 cfg_creates>>
  /\ UNCHANGED <<bs_vars, ca_vars, sec_vars>>

\* external.Delete, called while the record is observed to exist.
ConfigurationDelete ==
  /\ cfg_pc = "observed"
  /\ Dispatch(cfg_obs, cfg_deleting) = "delete"
  /\ \E persistOk \in BOOLEAN :
       LET st == ConfigurationDeleteStatus(cfg_obs.status)
       IN  /\ cfg_last' = [op |-> "Delete", err |-> NoErr,
                           pre |-> cfg_obs.status, post |-> st]
           /\ cfg_status' = IF persistOk THEN st ELSE cfg_status
  /\ cfg_pc' = "idle"
  /\ UNCHANGED <<now, cfg_src, cfg_spec, cfg_obs, cfg_deleting, cfg_creates>>
  /\ UNCHANGED <<bs_vars, ca_vars, sec_vars>>

\* The record is released once it is observed not to exist.
ConfigurationRemove ==
  /\ cfg_pc = "observed"
  /\ Dispatch(cfg_obs, cfg_deleting) = "remove"
  /\ cfg_pc' = "gone"
  /\ UNCHANGED <<now, cfg_src, cfg_spec, cfg_status, cfg_obs, cfg_deleting, cfg_last,
                 cfg_creates>>
  /\ UNCHANGED <<bs_vars, ca_vars, sec_vars>>

ConfigurationNext ==
  \/ ConfigurationObservePass
  \/ ConfigurationPassDone
  \/ ConfigurationCreate
  \/ ConfigurationUpdate
  \/ ConfigurationSpecChange
  \/ ConfigurationRequestDelete
  \/ ConfigurationDelete
  \/ ConfigurationRemove

\* ========================================================= specifications

vars == <<now, bs_vars, ca_vars, sec_vars, cfg_vars>>

\* The Spec of a record that is left alone.
IdleClientConfiguration ==
  [caCertificate |-> "PEM", clientCertificate |-> "PEM", clientKey |-> "KEY"]

BootstrapIdleSpec ==
  [node |-> "10.0.0.9", endpoint |-> NoString,
   clientConfiguration |-> IdleClientConfiguration]

ApplyIdleSpec ==
  [node |-> "10.0.0.9", endpoint |-> NoString, applyMode |-> NoString,
   machineConfigurationInput |-> <<>>,
   clientConfiguration |-> IdleClientConfiguration]

SecretsIdleSpec == [node |-> NoString, talosVersion |-> NoString]

ConfigurationIdleSpec ==
  [clusterName |-> "", clusterEndpoint |-> "", machineType |-> "controlplane",
   machineSecretsRef |-> NoString]

\* A fresh Bootstrap record with any Spec.
BootstrapInit ==
  /\ now = 1
  /\ bs_spec \in BootstrapParameters
  /\ bs_status = BootstrapObservation
  /\ bs_pc = "idle"
  /\ bs_obs = NoObservation
  /\ bs_deleting = FALSE
  /\ bs_last = NoCall
  /\ bs_rpcs = 0
  /\ bs_seen = FALSE
  /\ bs_creates = 0
  /\ ca_spec = ApplyIdleSpec
  /\ ca_status = ConfigurationApplyObservation
  /\ ca_pc = "idle"
  /\ ca_obs = NoObservation
  /\ ca_deleting = FALSE
  /\ ca_last = ApplyNoCall
  /\ ca_sent = NoDocument
  /\ sec_spec = SecretsIdleSpec
  /\ sec_status = SecretsObservation
  /\ sec_pc = "idle"
  /\ sec_obs = SecretsNoObservation
  /\ sec_deleting = FALSE
  /\ sec_last = SecretsNoCall
  /\ cfg_src = "configuration.go"
  /\ cfg_spec = ConfigurationIdleSpec
  /\ cfg_status = ConfigurationObservation
  /\ cfg_pc = "idle"
  /\ cfg_obs = ConfigurationNoObservation
  /\ cfg_deleting = FALSE
  /\ cfg_last = ConfigurationNoCall
  /\ cfg_creates = 0

\* A fresh ConfigurationApply record with any Spec.
ApplyInit ==
  /\ now = 1
  /\ ca_spec \in ConfigurationApplyParameters
  /\ ca_status = ConfigurationApplyObservation
  /\ ca_pc = "idle"
  /\ ca_obs = NoObservation
  /\ ca_deleting = FALSE
  /\ ca_last = ApplyNoCall
  /\ ca_sent = NoDocument
  /\ bs_spec = BootstrapIdleSpec
  /\ bs_status = BootstrapObservation
  /\ bs_pc = "idle"
  /\ bs_obs = NoObservation
  /\ bs_deleting = FALSE
  /\ bs_last = NoCall
  /\ bs_rpcs = 0
  /\ bs_seen = FALSE
  /\ bs_creates = 0
  /\ sec_spec = SecretsIdleSpec
  /\ sec_status = SecretsObservation
  /\ sec_pc = "idle"
  /\ sec_obs = SecretsNoObservation
  /\ sec_deleting = FALSE
  /\ sec_last = SecretsNoCall
  /\ cfg_src = "configuration.go"
  /\ cfg_spec = ConfigurationIdleSpec
  /\ cfg_status = ConfigurationObservation
  /\ cfg_pc = "idle"
  /\ cfg_obs = ConfigurationNoObservation
  /\ cfg_deleting = FALSE
  /\ cfg_last = ConfigurationNoCall
  /\ cfg_creates = 0

\* A fresh Secrets record with any Spec.
SecretsInit ==
  /\ now = 1
  /\ sec_spec \in SecretsParameters
  /\ sec_status = SecretsObservation
  /\ sec_pc = "idle"
  /\ sec_obs = SecretsNoObservation
  /\ sec_deleting = FALSE
  /\ sec_last = SecretsNoCall
  /\ bs_spec = BootstrapIdleSpec
  /\ bs_status = BootstrapObservation
  /\ bs_pc = "idle"
  /\ bs_obs = NoObservation
  /\ bs_deleting = FALSE
  /\ bs_last = NoCall
  /\ bs_rpcs = 0
  /\ bs_seen = FALSE
  /\ bs_creates = 0
  /\ ca_spec = ApplyIdleSpec
  /\ ca_status = ConfigurationApplyObservation
  /\ ca_pc = "idle"
  /\ ca_obs = NoObservation
  /\ ca_deleting = FALSE
  /\ ca_last = ApplyNoCall
  /\ ca_sent = NoDocument
  /\ cfg_src = "configuration.go"
  /\ cfg_spec = ConfigurationIdleSpec
  /\ cfg_status = ConfigurationObservation
  /\ cfg_pc = "idle"
  /\ cfg_obs = ConfigurationNoObservation
  /\ cfg_deleting = FALSE
  /\ cfg_last = ConfigurationNoCall
  /\ cfg_creates = 0

\* A fresh Configuration record with any Spec, under either source of its
\* controller; the Secrets record it may refer to is absent or generated.
ConfigurationInit ==
  /\ now = 1
  /\ cfg_src \in ControllerSources
  /\ cfg_spec \in ConfigurationParameters
  /\ cfg_status = ConfigurationObservation
  /\ cfg_pc = "idle"
  /\ cfg_obs = ConfigurationNoObservation
  /\ cfg_deleting = FALSE
  /\ cfg_last = ConfigurationNoCall
  /\ cfg_creates = 0
  /\ sec_spec = SecretsIdleSpec
  /\ sec_status \in {SecretsObservation,
                      GeneratedStatus(generateMachineSecrets(NoString, "bundle-1", TRUE))}
  /\ sec_pc = "idle"
  /\ sec_obs = SecretsNoObservation
  /\ sec_deleting = FALSE
  /\ sec_last = SecretsNoCall
  /\ bs_spec = BootstrapIdleSpec
  /\ bs_status = BootstrapObservation
  /\ bs_pc = "idle"
  /\ bs_obs = NoObservation
  /\ bs_deleting = FALSE
  /\ bs_last = NoCall
  /\ bs_rpcs = 0
  /\ bs_seen = FALSE
  /\ bs_creates = 0
  /\ ca_spec = ApplyIdleSpec
  /\ ca_status = ConfigurationApplyObservation
  /\ ca_pc = "idle"
  /\ ca_obs = NoObservation
  /\ ca_deleting = FALSE
  /\ ca_last = ApplyNoCall
  /\ ca_sent = NoDocument

\* One Bootstrap record under its reconciler.
SpecBootstrap == BootstrapInit /\ [][BootstrapNext]_vars

\* One ConfigurationApply record under its reconciler.
SpecApply == ApplyInit /\ [][ApplyNext]_vars

\* One Secrets record under its reconciler.
SpecSecrets == SecretsInit /\ [][SecretsNext]_vars

\* One Configuration record under its reconciler.
SpecConfiguration == ConfigurationInit /\ [][ConfigurationNext]_vars

\* The document of a Configuration record is given to the ConfigurationApply
\* record as its machineConfigurationInput.
HandOff ==
  /\ ca_pc = "idle"
  /\ ~ca_deleting
  /\ cfg_status.machineConfiguration # EmptyDocument
  /\ ca_spec.machineConfigurationInput # cfg_status.machineConfiguration
  /\ ca_spec' = [ca_spec EXCEPT
                   !.machineConfigurationInput = cfg_status.machineConfiguration]
  /\ UNCHANGED <<now, ca_status, ca_pc, ca_obs, ca_deleting, ca_last, ca_sent>>
  /\ UNCHANGED <<bs_vars, sec_vars, cfg_vars>>

\* One fresh record of each kind, the machine-facing ones with a valid
\* credential bundle; the Configuration record refers to the Secrets record.
ProviderInit ==
  /\ now = 1
  /\ bs_spec = BootstrapIdleSpec
  /\ bs_status = BootstrapObservation
  /\ bs_pc = "idle"
  /\ bs_obs = NoObservation
  /\ bs_deleting = FALSE
  /\ bs_last = NoCall
  /\ bs_rpcs = 0
  /\ bs_seen = FALSE
  /\ bs_creates = 0
  /\ ca_spec = ApplyIdleSpec
  /\ ca_status = ConfigurationApplyObservation
  /\ ca_pc = "idle"
  /\ ca_obs = NoObservation
  /\ ca_deleting = FALSE
  /\ ca_last = ApplyNoCall
  /\ ca_sent = NoDocument
  /\ sec_spec = SecretsIdleSpec
  /\ sec_status = SecretsObservation
  /\ sec_pc = "idle"
  /\ sec_obs = SecretsNoObservation
  /\ sec_deleting = FALSE
  /\ sec_last = SecretsNoCall
  /\ cfg_src \in ControllerSources
  /\ cfg_spec = [clusterName |-> "demo", clusterEndpoint |-> "https://10.0.0.5:6443",
                 machineType |-> "controlplane", machineSecretsRef |-> "S"]
  /\ cfg_status = ConfigurationObservation
  /\ cfg_pc = "idle"
  /\ cfg_obs = ConfigurationNoObservation
  /\ cfg_deleting = FALSE
  /\ cfg_last = ConfigurationNoCall
  /\ cfg_creates = 0

\* The reconcilers of the four kinds take their steps in any order; the
\* ConfigurationApply record gets its document by the hand-off only.
ProviderNext ==
  \/ BootstrapObservePass
  \/ BootstrapPassDone
  \/ BootstrapCreate
  \/ BootstrapUpdate
  \/ BootstrapRequestDelete
  \/ BootstrapDelete
  \/ BootstrapRemove
  \/ ApplyObservePass
  \/ ApplyPassDone
  \/ ApplyCreate
  \/ ApplyRequestDelete
  \/ ApplyDelete
  \/ ApplyRemove
  \/ SecretsObservePass
  \/ SecretsPassDone
  \/ SecretsCreate
  \/ SecretsUpdate
  \/ SecretsRequestDelete
  \/ SecretsDelete
  \/ SecretsRemove
  \/ ConfigurationObservePass
  \/ ConfigurationPassDone
  \/ ConfigurationCreate
  \/ ConfigurationUpdate
  \/ ConfigurationRequestDelete
  \/ ConfigurationDelete
  \/ ConfigurationRemove
  \/ HandOff

\* The credential bundles of the two machine-facing records: a valid pair,
\* an unparsable certificate with and without an insecure CA, and an empty
\* certificate.
MachineClientConfigurations ==
  {[caCertificate |-> "PEM", clientCertificate |-> "PEM", clientKey |-> "KEY"],
   [caCertificate |-> "insecure", clientCertificate |-> "garbage", clientKey |-> "KEY"],
   [caCertificate |-> "PEM", clientCertificate |-> "garbage", clientKey |-> "KEY"],
   [caCertificate |-> "PEM", clientCertificate |-> "", clientKey |-> "KEY"]}

\* A fresh Bootstrap record and a fresh ConfigurationApply record for the
\* same node, the latter with a document to apply.
MachineInit ==
  /\ now = 1
  /\ bs_spec \in [node : Nodes, endpoint : {NoString},
                   clientConfiguration : MachineClientConfigurations]
  /\ bs_status = BootstrapObservation
  /\ bs_pc = "idle"
  /\ bs_obs = NoObservation
  /\ bs_deleting = FALSE
  /\ bs_last = NoCall
  /\ bs_rpcs = 0
  /\ bs_seen = FALSE
  /\ bs_creates = 0
  /\ ca_spec \in [node : Nodes, endpoint : {NoString}, applyMode : {NoString},
                   machineConfigurationInput : {<<"version: v1alpha1">>},
                   clientConfiguration :
                     {cc \in MachineClientConfigurations : cc.caCertificate = "PEM"}]
  /\ ca_status = ConfigurationApplyObservation
  /\ ca_pc = "idle"
  /\ ca_obs = NoObservation
  /\ ca_deleting = FALSE
  /\ ca_last = ApplyNoCall
  /\ ca_sent = NoDocument
  /\ sec_spec = SecretsIdleSpec
  /\ sec_status = SecretsObservation
  /\ sec_pc = "idle"
  /\ sec_obs = SecretsNoObservation
  /\ sec_deleting = FALSE
  /\ sec_last = SecretsNoCall
  /\ cfg_src = "configuration.go"
  /\ cfg_spec = ConfigurationIdleSpec
  /\ cfg_status = ConfigurationObservation
  /\ cfg_pc = "idle"
  /\ cfg_obs = ConfigurationNoObservation
  /\ cfg_deleting = FALSE
  /\ cfg_last = ConfigurationNoCall
  /\ cfg_creates = 0

\* The passes of the two machine-facing kinds over records that are not
\* being deleted, in any order.
MachineNext ==
  \/ BootstrapObservePass
  \/ BootstrapPassDone
  \/ BootstrapCreate
  \/ BootstrapUpdate
  \/ ApplyObservePass
  \/ ApplyPassDone
  \/ ApplyCreate
  \/ ApplyUpdate
  \/ ApplySpecChange

\* A Bootstrap and a ConfigurationApply record, each under its own
\* reconciler, side by side.
SpecMachine == MachineInit /\ [][MachineNext]_vars

\* One record of each kind, each under its own reconciler, side by side.
SpecProvider == ProviderInit /\ [][ProviderNext]_vars

\* The records a starting controller finds: a Bootstrap, a ConfigurationApply
\* and a Secrets record, each either fresh or already converged by an earlier
\* run.
SteadyInit ==
  /\ now = 1
  /\ bs_spec = BootstrapIdleSpec
  /\ bs_status \in {BootstrapObservation,
                    [bootstrapped |-> TRUE, bootstrapTime |-> 1]}
  /\ bs_pc = "idle"
  /\ bs_obs = NoObservation
  /\ bs_deleting = FALSE
  /\ bs_last = NoCall
  /\ bs_rpcs = 0
  /\ bs_seen = FALSE
  /\ bs_creates = 0
  /\ ca_spec = [ApplyIdleSpec EXCEPT
                  !.machineConfigurationInput = <<"version: v1alpha1">>]
  /\ ca_status \in {ConfigurationApplyObservation,
                    [ConfigurationApplyObservation EXCEPT !.applied = TRUE]}
  /\ ca_pc = "idle"
  /\ ca_obs = NoObservation
  /\ ca_deleting = FALSE
  /\ ca_last = ApplyNoCall
  /\ ca_sent = NoDocument
  /\ sec_spec = SecretsIdleSpec
  /\ sec_status \in {SecretsObservation,
                     GeneratedStatus(generateMachineSecrets(NoString, "bundle-1", TRUE))}
  /\ sec_pc = "idle"
  /\ sec_obs = SecretsNoObservation
  /\ sec_deleting = FALSE
  /\ sec_last = SecretsNoCall
  /\ cfg_src = "configuration.go"
  /\ cfg_spec = ConfigurationIdleSpec
  /\ cfg_status = ConfigurationObservation
  /\ cfg_pc = "idle"
  /\ cfg_obs = ConfigurationNoObservation
  /\ cfg_deleting = FALSE
  /\ cfg_last = ConfigurationNoCall
  /\ cfg_creates = 0

\* The passes of the three kinds as the reconciler drives them: the handler
\* it selects after each Observe, and deletion.
SteadyNext ==
  \/ BootstrapObservePass
  \/ BootstrapPassDone
  \/ BootstrapCreate
  \/ BootstrapRequestDelete
  \/ BootstrapDelete
  \/ BootstrapRemove
  \/ ApplyObservePass
  \/ ApplyPassDone
  \/ ApplyCreate
  \/ ApplyRequestDelete
  \/ ApplyDelete
  \/ ApplyRemove
  \/ SecretsObservePass
  \/ SecretsPassDone
  \/ SecretsCreate
  \/ SecretsRequestDelete
  \/ SecretsDelete
  \/ SecretsRemove

\* Records found at start, fresh or converged, under their reconcilers.
SpecSteady == SteadyInit /\ [][SteadyNext]_vars

\* A poll of the ConfigurationApply record: the reconciler reads the record
\* and calls Observe.  Polls recur for as long as the record lives, so this
\* pass start does not count passes on the clock.
ApplyPoll ==
  /\ ca_pc = "idle"
  /\ ca_obs' = ApplyObserve(ca_spec, ca_status)
  /\ ca_pc' = "observed"
  /\ UNCHANGED <<now, ca_spec, ca_status, ca_deleting, ca_last, ca_sent>>
  /\ UNCHANGED <<bs_vars, sec_vars, cfg_vars>>

\* The passes of a ConfigurationApply record whose Spec is left alone and
\* that is not deleted.
ApplyLiveNext ==
  \/ ApplyPoll
  \/ ApplyPassDone
  \/ ApplyCreate

\* A ConfigurationApply record polled for ever: every poll happens and every
\* pass runs to its end.
SpecApplyLive ==
  /\ ApplyInit
  /\ [][ApplyLiveNext]_vars
  /\ WF_vars(ApplyPoll)
  /\ WF_vars(ApplyPassDone)
  /\ WF_vars(ApplyCreate)

\* ================================================================== claims

ValidDocument(doc) == doc # <<>> /\ ~Contains(doc, PlaceholderMarker)

\* C1: once Observe has reported resourceExists for the Bootstrap record, no
\* later step is a call of Create, and no further bootstrap RPC is
\* acknowledged, whatever else (Update, Delete, more passes) happens.
C1_NoCreateAfterExists ==
  [][bs_seen => (bs_creates' = bs_creates /\ bs_rpcs' = bs_rpcs)]_vars

\* C1 witness: after Observe reported resourceExists, Update was called and a
\* further pass has observed the record.
C1_Witness ==
  /\ bs_seen
  /\ bs_last.op = "Update"
  /\ bs_pc = "observed"
  /\ bs_creates = 1

\* C2: at most one bootstrap RPC is acknowledged per Bootstrap record, also
\* when the status of a pass whose RPC succeeded was not written back.
C2_AtMostOneBootstrapRPC == bs_rpcs <= 1

\* C3: a Create whose RPC was acknowledged returns no error and leaves
\* bootstrapped = true with a bootstrapTime; any other Create returns an
\* error and leaves bootstrapped and bootstrapTime as they were.
C3_CreateSetsStatusOnlyOnSuccess ==
  bs_last.op = "Create" =>
    /\ (bs_last.err = NoErr) <=> bs_last.rpcOk
    /\ bs_last.rpcOk =>
         (bs_last.post.bootstrapped /\ bs_last.post.bootstrapTime # NoTime)
    /\ ~bs_last.rpcOk => bs_last.post = bs_last.pre

\* C3 witness: a Create failed, and the Create of a later pass had its RPC
\* acknowledged.
C3_Witness ==
  /\ bs_last.op = "Create"
  /\ bs_last.rpcOk
  /\ bs_creates = 2
  /\ bs_rpcs = 1

\* C4: no step takes the stored bootstrapped flag from true back to false.
C4_BootstrappedIrreversible ==
  [][bs_status.bootstrapped => bs_status'.bootstrapped]_vars

\* C4 witness: Delete was called on a bootstrapped record.
C4_Witness ==
  /\ bs_last.op = "Delete"
  /\ bs_status.bootstrapped

\* C5: the observation of a Bootstrap pass has resourceExists iff the record
\* is bootstrapped with a bootstrapTime, and resourceUpToDate iff
\* resourceExists.
C5_BootstrapObserve ==
  bs_pc = "observed" =>
    /\ bs_obs.resourceExists <=>
         (bs_status.bootstrapped /\ bs_status.bootstrapTime # NoTime)
    /\ bs_obs.resourceUpToDate <=> bs_obs.resourceExists

\* C5 witness: a pass observed a bootstrapped record.
C5_Witness ==
  /\ bs_pc = "observed"
  /\ bs_obs.resourceExists
  /\ bs_status.bootstrapTime # NoTime

\* C6: the observation of a ConfigurationApply record whose input is empty
\* or holds the placeholder marker has resourceUpToDate = false, applied or
\* not.
C6_PlaceholderRejection ==
  (ca_pc = "observed" /\ ~ValidDocument(ca_spec.machineConfigurationInput))
    => ~ca_obs.resourceUpToDate

\* C6 witness: a pass observed an applied record whose input holds the
\* placeholder marker.
C6_Witness ==
  /\ ca_pc = "observed"
  /\ ca_status.applied
  /\ Contains(ca_spec.machineConfigurationInput, PlaceholderMarker)

\* C7: the observation of a ConfigurationApply pass has resourceExists =
\* applied and resourceUpToDate = (resourceExists and the input is non-empty
\* and free of the placeholder marker).
C7_ApplyObserve ==
  ca_pc = "observed" =>
    /\ ca_obs.resourceExists = ca_status.applied
    /\ ca_obs.resourceUpToDate =
         (ca_obs.resourceExists
            /\ Len(ca_spec.machineConfigurationInput) > 0
            /\ \A i \in 1..Len(ca_spec.machineConfigurationInput) :
                 ca_spec.machineConfigurationInput[i] # PlaceholderMarker)

\* C7 witness: a pass observed an applied record with a valid input.
C7_Witness ==
  /\ ca_pc = "observed"
  /\ ca_status.applied
  /\ ca_obs.resourceUpToDate

\* C8: a ConfigurationApply Create or Update returns no error and leaves
\* applied = true exactly when its RPC was acknowledged; otherwise it returns
\* an error and leaves the status as it was, and the pass after a failed
\* Create selects Create again.
C8_AppliedOnlyOnSuccess ==
  /\ ca_last.op \in {"Create", "Update"} =>
       /\ (ca_last.err = NoErr) <=> ca_last.rpcOk
       /\ ca_last.rpcOk => ca_last.post.applied
       /\ ~ca_last.rpcOk => ca_last.post = ca_last.pre
  /\ (ca_last.op = "Create" /\ ca_last.err # NoErr
        /\ ca_pc = "observed" /\ ~ca_deleting)
       => (~ca_status.applied /\ Dispatch(ca_obs, ca_deleting) = "create")

\* C8 witness: the RPC of a Create failed and the next pass has observed the
\* record.
C8_Witness ==
  /\ ca_last.op = "Create"
  /\ ca_last.rpcIssued
  /\ ~ca_last.rpcOk
  /\ ca_pc = "observed"
  /\ ~ca_deleting

\* C9: in every state, applied = true implies lastAppliedTime is present.
C9_AppliedHasTimestamp ==
  ca_status.applied => ca_status.lastAppliedTime # NoTime

\* C10: when a pass observes an applied record whose input is a valid
\* document other than the one last applied, the pass selects Update (which
\* sends the new document).
C10_ReapplyOnChange ==
  (/\ ca_pc = "observed"
   /\ ~ca_deleting
   /\ ca_status.applied
   /\ ValidDocument(ca_spec.machineConfigurationInput)
   /\ ca_sent # ca_spec.machineConfigurationInput)
    => Dispatch(ca_obs, ca_deleting) = "update"

\* C11: a step that takes the stored applied flag from true to false is a
\* call of Delete; no Observe, Create or Update step, failing or not, does.
C11_AppliedOnlyLeftByDelete ==
  [][(ca_status.applied /\ ~ca_status'.applied)
       => (ca_pc = "observed" /\ Dispatch(ca_obs, ca_deleting) = "delete")]_vars

\* C11 witness: an Update failed on an applied record, which is still
\* applied.
C11_Witness ==
  /\ ca_last.op = "Update"
  /\ ca_last.err # NoErr
  /\ ca_last.pre.applied
  /\ ca_status.applied

\* C12: every apply RPC carries the whole machineConfigurationInput and the
\* mode of Spec.applyMode, no_reboot when applyMode is not set.
C12_RPCCarriesDocumentAndMode ==
  ca_last.rpcIssued =>
    /\ ca_last.data = ca_last.input
    /\ ca_last.mode = IF ca_last.applyMode = NoString
                      THEN "no_reboot"
                      ELSE ca_last.applyMode

\* The record holds a generated bundle.
Generated(st) ==
  st.machineSecrets # NilPointer /\ st.clientConfiguration # NilPointer

\* C13: a call of Update on a Secrets record that holds its generated bundle
\* returns an error and leaves the machine secrets and the client
\* configuration of Status as they were.
C13_UpdateFailsStatusUnchanged ==
  (sec_last.op = "Update" /\ Generated(sec_last.pre)) =>
    /\ sec_last.err # NoErr
    /\ sec_last.post = sec_last.pre

\* C13 witness: Update was called on a record holding a generated bundle.
C13_Witness ==
  /\ sec_last.op = "Update"
  /\ Generated(sec_last.pre)
  /\ sec_status = sec_last.pre

C15_GeneratedIsTerminal ==
  [][Generated(sec_status) => sec_status' = sec_status]_vars

\* C15 witness: a record with a generated bundle went through Update and is
\* observed again by a later pass.
C15_Witness ==
  /\ Generated(sec_status)
  /\ sec_last.op = "Update"
  /\ sec_pc = "observed"
  /\ sec_obs.resourceExists

\* C16: after a call of Delete on a Secrets record the machine secrets and
\* the client configuration of Status are cleared.
C16_DeleteClearsStatus ==
  sec_last.op = "Delete" => sec_last.post = SecretsObservation

CredentialKeys == {"ca_certificate", "client_certificate", "client_key", "talos_config"}

\* C17: a successful Create of a Secrets record fills machineSecrets and
\* clientConfiguration of Status and publishes connection details with
\* exactly the keys ca_certificate, client_certificate, client_key and
\* talos_config, the first three with the values written to Status.
C17_CreatePublishesArtifact ==
  (sec_last.op = "Create" /\ sec_last.err = NoErr) =>
    /\ Generated(sec_last.post)
    /\ DetailKeys(sec_last.connectionDetails) = CredentialKeys
    /\ \A kv \in sec_last.connectionDetails :
         /\ kv[1] = "ca_certificate" => kv[2] = sec_last.post.clientConfiguration.caCertificate
         /\ kv[1] = "client_certificate"
              => kv[2] = sec_last.post.clientConfiguration.clientCertificate
         /\ kv[1] = "client_key" => kv[2] = sec_last.post.clientConfiguration.clientKey

\* C17 witness: Create succeeded and its Status was stored.
C17_Witness ==
  /\ sec_last.op = "Create"
  /\ sec_last.err = NoErr
  /\ sec_status = sec_last.post
  /\ Generated(sec_status)

\* C18: once the stored Status of a Configuration record holds a rendered
\* document, Observe reports resourceExists and resourceUpToDate, so that no
\* further Create is selected for the record.
C18_ObserveExistsAfterRender ==
  (cfg_pc = "observed" /\ cfg_status.machineConfiguration # EmptyDocument) =>
    /\ cfg_obs.resourceExists
    /\ cfg_obs.resourceUpToDate

SecretsArtifactAbsent ==
  cfg_spec.machineSecretsRef = NoString \/ ~Generated(sec_status)

\* C20: no step commits a document to Status.machineConfiguration of a
\* Configuration record whose referenced Secrets artifact is absent.
C20_DependencyGating ==
  [][(SecretsArtifactAbsent /\ cfg_status.machineConfiguration = EmptyDocument)
       => cfg_status'.machineConfiguration = EmptyDocument]_vars

\* Observe of configuration.go has just rendered cfg_spec into the record.
FreshRender == cfg_src = "configuration.go" /\ cfg_pc = "observed"

FreshDocument == cfg_obs.status.machineConfiguration

\* The cluster names and endpoints a document could carry.
KnownClusterNames == ClusterNames \cup {"talos-cluster", "talos-cluster-123"}

KnownClusterEndpoints == ClusterEndpoints \cup {"https://192.168.120.83:6443"}

ExpectedClusterName ==
  IF cfg_spec.clusterName = "" THEN "talos-cluster" ELSE cfg_spec.clusterName

ExpectedClusterEndpoint ==
  IF cfg_spec.clusterEndpoint = ""
  THEN "https://192.168.120.83:6443" ELSE cfg_spec.clusterEndpoint

C22_SecretsFlowIntoDocument ==
  \A bundle \in Bundles :
    (/\ FreshRender
     /\ cfg_spec.machineSecretsRef # NoString
     /\ sec_status = GeneratedStatus(generateMachineSecrets(NoString, bundle, TRUE)))
      => /\ Contains(FreshDocument, "  id: id-" \o bundle)
         /\ Contains(FreshDocument, "  secret: secret-" \o bundle)
         /\ Contains(FreshDocument, "  token: token-" \o bundle)

\* C23: the machine role of the rendered document is Spec.machineType.
C23_RoleFromSpec ==
  FreshRender => Contains(FreshDocument, "  type: " \o cfg_spec.machineType)

\* The credential bundle selects maintenance mode.
InsecureBundle(cc) == cc.clientCertificate = "insecure" \/ cc.caCertificate = "insecure"

ApplyHandlerCalled == ca_last.op \in {"Create", "Update"}

\* C25: a Create or Update of a ConfigurationApply record whose credential
\* bundle has the sentinel "insecure" as client or CA certificate builds a
\* client without client certificate and with server verification disabled,
\* and issues its RPC (unless talosclient.New itself fails).
C25_InsecureSwitch ==
  (/\ ApplyHandlerCalled
   /\ ValidDocument(ca_last.input)
   /\ ca_spec.clientConfiguration.clientCertificate # ""
   /\ InsecureBundle(ca_spec.clientConfiguration)
   /\ ca_last.err # "failed to create Talos client")
    => /\ ca_last.rpcIssued
       /\ ca_last.client.insecureSkipVerify
       /\ ca_last.client.certificate = ""

\* C26: a client built by the ConfigurationApply handlers from a valid PEM
\* certificate and key, with no "insecure" sentinel in the bundle, presents
\* that certificate, verifies the server and expects the node as its name.
C26_SecureTransportVerifiesServer ==
  (/\ ApplyHandlerCalled
   /\ ca_last.client.built
   /\ X509KeyPair(ca_spec.clientConfiguration.clientCertificate,
                  ca_spec.clientConfiguration.clientKey)
   /\ ~InsecureBundle(ca_spec.clientConfiguration))
    => /\ ca_last.client.certificate = ca_spec.clientConfiguration.clientCertificate
       /\ ~ca_last.client.insecureSkipVerify
       /\ ca_last.client.serverName = ca_spec.node

\* The endpoint a Spec asks for: its override, or the node at the default port.
TargetEndpoint(spec) ==
  IF spec.endpoint # NoString /\ spec.endpoint # ""
  THEN spec.endpoint
  ELSE spec.node \o ":50000"

\* C27: the client built by the ConfigurationApply handlers targets
\* Spec.endpoint when one is given and <node>:50000 otherwise.
C27_TargetEndpoint ==
  (ApplyHandlerCalled /\ ca_last.client.built)
    => ca_last.client.endpoint = TargetEndpoint(ca_spec)

\* A document that is committed but is not a rendered machine configuration.
PlaceholderDocument(doc) ==
  /\ doc # EmptyDocument
  /\ ~(Contains(doc, "machine:") /\ Contains(doc, "cluster:"))

\* C24: when the document stored in the Configuration record is not a
\* rendered configuration, a ConfigurationApply record that has it as input
\* is observed as not up to date and no apply RPC is issued with it.
C24_PlaceholderNeverApplied ==
  PlaceholderDocument(cfg_status.machineConfiguration) =>
    /\ (ca_pc = "observed"
          /\ ca_spec.machineConfigurationInput = cfg_status.machineConfiguration)
         => ~ca_obs.resourceUpToDate
    /\ ca_last.rpcIssued => ca_last.data # cfg_status.machineConfiguration

Rejected(last) ==
  /\ last.err # NoErr
  /\ ~last.client.built
  /\ ~last.rpcIssued
  /\ last.post = last.pre

UnparsablePair(cc) == ~(cc.clientCertificate = "PEM" /\ cc.clientKey = "KEY")

\* C29 as stated: a Bootstrap or ConfigurationApply handler fails before any
\* client or RPC, leaving the status, when the client certificate is empty or
\* is not the sentinel "insecure" and does not parse with its key.
C29_CredentialErrorOriginal ==
  /\ (/\ bs_last.op = "Create"
      /\ \/ bs_spec.clientConfiguration.clientCertificate = ""
         \/ /\ bs_spec.clientConfiguration.clientCertificate # "insecure"
            /\ UnparsablePair(bs_spec.clientConfiguration))
       => Rejected(bs_last)
  /\ (/\ ApplyHandlerCalled
      /\ \/ ca_spec.clientConfiguration.clientCertificate = ""
         \/ /\ ca_spec.clientConfiguration.clientCertificate # "insecure"
            /\ UnparsablePair(ca_spec.clientConfiguration))
       => Rejected(ca_last)

\* C29 as amended: a Bootstrap or ConfigurationApply handler fails before any
\* client or RPC, leaving the status, when the client certificate is empty,
\* or when neither the client nor the CA certificate is the sentinel
\* "insecure" and the client certificate does not parse with its key.
C29_CredentialError ==
  /\ (/\ bs_last.op = "Create"
      /\ \/ bs_spec.clientConfiguration.clientCertificate = ""
         \/ /\ ~InsecureBundle(bs_spec.clientConfiguration)
            /\ UnparsablePair(bs_spec.clientConfiguration))
       => Rejected(bs_last)
  /\ (/\ ApplyHandlerCalled
      /\ \/ ca_spec.clientConfiguration.clientCertificate = ""
         \/ /\ ~InsecureBundle(ca_spec.clientConfiguration)
            /\ UnparsablePair(ca_spec.clientConfiguration))
       => Rejected(ca_last)

\* C29 witness: Create of a Bootstrap record with an unparsable certificate
\* and Create of a ConfigurationApply record with an empty certificate and a
\* valid document were both rejected.
C29_Witness ==
  /\ bs_last.op = "Create"
  /\ bs_spec.clientConfiguration.clientCertificate = "garbage"
  /\ bs_spec.clientConfiguration.caCertificate = "PEM"
  /\ Rejected(bs_last)
  /\ ca_last.op = "Create"
  /\ ca_spec.clientConfiguration.clientCertificate = ""
  /\ ValidDocument(ca_last.input)
  /\ Rejected(ca_last)

C31_UpdateNoRemoteAction ==
  [][(bs_last' # bs_last /\ bs_last'.op = "Update") =>
       /\ bs_last'.err = NoErr
       /\ ~bs_last'.client.built
       /\ ~bs_last'.rpcIssued
       /\ bs_rpcs' = bs_rpcs
       /\ bs_last'.post = bs_last'.pre
       /\ bs_status' = bs_status]_vars

\* C31 witness: Update has run on a record that is bootstrapped and carries
\* its bootstrap time.
C31_Witness ==
  /\ bs_last.op = "Update"
  /\ bs_last.pre.bootstrapped
  /\ bs_last.pre.bootstrapTime # NoTime
  /\ bs_pc = "idle"

\* C35: a Create or Update of a ConfigurationApply record whose input is
\* empty or holds the placeholder marker, or whose client certificate is
\* empty, returns an error, builds no client, issues no RPC, sends nothing to
\* the node and leaves Status.applied as it was.
C35_NoApplyOfInvalidInput ==
  [][(/\ ca_last' # ca_last
      /\ ca_last'.op \in {"Create", "Update"}
      /\ \/ ca_spec.machineConfigurationInput = <<>>
         \/ Contains(ca_spec.machineConfigurationInput, PlaceholderMarker)
         \/ ca_spec.clientConfiguration.clientCertificate = "")
     => /\ ca_last'.err # NoErr
        /\ ~ca_last'.client.built
        /\ ~ca_last'.rpcIssued
        /\ ca_sent' = ca_sent
        /\ ca_status'.applied = ca_status.applied]_vars

\* C35 witness: Update was refused on an applied record whose input holds the
\* placeholder marker although its credentials parse.
C35_Witness ==
  /\ ca_last.op = "Update"
  /\ Contains(ca_last.input, PlaceholderMarker)
  /\ X509KeyPair(ca_spec.clientConfiguration.clientCertificate,
                 ca_spec.clientConfiguration.clientKey)
  /\ ca_last.err # NoErr
  /\ ca_last.pre.applied
  /\ ca_status.applied

\* C36: while an applied ConfigurationApply record has an empty or placeholder
\* input and is not being deleted, every pass observes resourceExists = true
\* and resourceUpToDate = false and selects Update, every handler call is an
\* Update that fails without RPC, and applied stays true.
C36_InvalidInputNeverConverges ==
  [][(/\ ca_status.applied
      /\ ~ValidDocument(ca_spec.machineConfigurationInput)
      /\ ca_spec' = ca_spec
      /\ ~ca_deleting)
     => /\ ca_status'.applied
        /\ ca_pc' = "observed" =>
             /\ ca_obs'.resourceExists
             /\ ~ca_obs'.resourceUpToDate
             /\ Dispatch(ca_obs', ca_deleting') = "update"
        /\ ca_last' # ca_last =>
             /\ ca_last'.op = "Update"
             /\ ca_last'.err # NoErr
             /\ ~ca_last'.rpcIssued]_vars

\* C36 witness: after Update was refused on an applied record with an invalid
\* input, a further pass again observes it as existing and not up to date.
C36_Witness ==
  /\ ca_last.op = "Update"
  /\ ca_last.err # NoErr
  /\ ca_status.applied
  /\ ~ValidDocument(ca_spec.machineConfigurationInput)
  /\ ca_pc = "observed"
  /\ ca_obs.resourceExists
  /\ ~ca_obs.resourceUpToDate

\* C37: a Bootstrap record that is bootstrapped carries a bootstrap time, and
\* a pass observes resourceExists exactly when the record is bootstrapped.
C37_BootstrappedHasTime ==
  /\ bs_status.bootstrapped => bs_status.bootstrapTime # NoTime
  /\ bs_pc = "observed" => (bs_obs.resourceExists <=> bs_status.bootstrapped)

\* C37 witness: a pass observed a record that Create had marked bootstrapped.
C37_Witness ==
  /\ bs_status.bootstrapped
  /\ bs_last.op = "Create"
  /\ bs_pc = "observed"
  /\ bs_obs.resourceExists

\* C39: every Secrets pass sets the condition Available when the observation
\* is exists and up to date and Unavailable otherwise, and the condition is
\* never Available for a record without machine secrets or client
\* configuration in Status.
C39_ConditionFollowsObservation ==
  sec_pc = "observed" =>
    /\ sec_obs.condition =
         (IF sec_obs.resourceExists /\ sec_obs.resourceUpToDate
          THEN "Available" ELSE "Unavailable")
    /\ sec_obs.condition = "Available" =>
         (sec_status.machineSecrets # NilPointer
            /\ sec_status.clientConfiguration # NilPointer)

\* C39 witness: after a Create that failed, a pass observed the record without
\* a bundle and set Unavailable.
C39_Witness ==
  /\ sec_pc = "observed"
  /\ sec_last.op = "Create"
  /\ sec_last.err # NoErr
  /\ ~Generated(sec_status)
  /\ sec_obs.condition = "Unavailable"

\* The connection details a pass publishes for a client configuration.
ObservedArtifact(cc) ==
  {<<"ca_certificate", cc.caCertificate>>,
   <<"client_certificate", cc.clientCertificate>>,
   <<"client_key", cc.clientKey>>}

\* C40: a Secrets pass publishes ca_certificate, client_certificate and
\* client_key with the values of Status.clientConfiguration for a generated
\* record and nothing for a record that is not generated, and what it
\* publishes is part of what the Create of that record published.
C40_ObservedArtifact ==
  sec_pc = "observed" =>
    /\ Generated(sec_status) =>
         sec_obs.connectionDetails = ObservedArtifact(sec_status.clientConfiguration)
    /\ ~Generated(sec_status) => sec_obs.connectionDetails = NoDetails
    /\ (sec_last.op = "Create" /\ sec_last.err = NoErr) =>
         sec_obs.connectionDetails \subseteq sec_last.connectionDetails

\* C40 witness: a pass published the three keys for a record whose Create had
\* published them.
C40_Witness ==
  /\ sec_pc = "observed"
  /\ sec_last.op = "Create"
  /\ sec_last.err = NoErr
  /\ DetailKeys(sec_obs.connectionDetails) =
       {"ca_certificate", "client_certificate", "client_key"}

\* C32: a call of Delete on a Bootstrap record and a call of Delete on a
\* ConfigurationApply record each return no error, build no client and issue
\* no RPC to the machine.
C32_DeleteNoRemoteAction ==
  [][/\ (bs_last' # bs_last /\ bs_last'.op = "Delete") =>
          /\ bs_last'.err = NoErr
          /\ ~bs_last'.client.built
          /\ ~bs_last'.rpcIssued
          /\ bs_rpcs' = bs_rpcs
     /\ (ca_last' # ca_last /\ ca_last'.op = "Delete") =>
          /\ ca_last'.err = NoErr
          /\ ~ca_last'.client.built
          /\ ~ca_last'.rpcIssued
          /\ ca_sent' = ca_sent]_vars

\* C32 witness: Delete has run on a bootstrapped Bootstrap record and on an
\* applied ConfigurationApply record.
C32_Witness ==
  /\ bs_last.op = "Delete"
  /\ bs_last.pre.bootstrapped
  /\ ca_last.op = "Delete"
  /\ ca_last.pre.applied

\* C38: no pass of a Secrets or of a Bootstrap record observes resourceExists
\* together with resourceUpToDate = false, so the reconciler never selects
\* Update for these kinds.
C38_UpdateNeverSelected ==
  /\ bs_pc = "observed" =>
       /\ ~(bs_obs.resourceExists /\ ~bs_obs.resourceUpToDate)
       /\ Dispatch(bs_obs, bs_deleting) # "update"
  /\ sec_pc = "observed" =>
       /\ ~(sec_obs.resourceExists /\ ~sec_obs.resourceUpToDate)
       /\ Dispatch(sec_obs, sec_deleting) # "update"

\* C38 witness: passes are observing an existing Bootstrap record and an
\* existing Secrets record, neither being deleted.
C38_Witness ==
  /\ bs_pc = "observed"
  /\ bs_obs.resourceExists
  /\ ~bs_deleting
  /\ sec_pc = "observed"
  /\ sec_obs.resourceExists
  /\ ~sec_deleting

\* C34: from a state in which a Bootstrap record is bootstrapped with its
\* bootstrap time, no step issues a bootstrap RPC or changes its Status; from
\* a state in which a ConfigurationApply record is applied with a valid
\* input, no step that leaves its Spec alone issues an apply RPC or changes
\* its Status.
C34_ConvergedIsIdempotent ==
  [][/\ (bs_status.bootstrapped /\ bs_status.bootstrapTime # NoTime) =>
          /\ bs_status' = bs_status
          /\ bs_rpcs' = bs_rpcs
          /\ bs_last' # bs_last => ~bs_last'.rpcIssued
     /\ (/\ ca_status.applied
         /\ ValidDocument(ca_spec.machineConfigurationInput)
         /\ ca_spec' = ca_spec) =>
          /\ ca_status' = ca_status
          /\ ca_sent' = ca_sent
          /\ ca_last' # ca_last => ~ca_last'.rpcIssued]_vars

\* C34 witness: both records have converged through their Create and a
\* further pass observes the ConfigurationApply record as up to date.
C34_Witness ==
  /\ bs_status.bootstrapped
  /\ bs_last.op = "Create"
  /\ ca_status.applied
  /\ ca_last.op = "Create"
  /\ ca_pc = "observed"
  /\ ca_obs.resourceUpToDate

\* The input of the ConfigurationApply record is a non-empty document without
\* the placeholder marker and its client certificate and key parse.
ApplicableInput ==
  /\ ValidDocument(ca_spec.machineConfigurationInput)
  /\ X509KeyPair(ca_spec.clientConfiguration.clientCertificate,
                 ca_spec.clientConfiguration.clientKey)

\* A handler call of the ConfigurationApply record has its RPC acknowledged
\* and its status written back.
ApplyCallSucceeds ==
  (/\ ca_pc = "observed"
   /\ ca_pc' = "idle"
   /\ Dispatch(ca_obs, ca_deleting) \in {"create", "update"})
  => (ca_last'.rpcOk /\ ca_status' = ca_last'.post)

\* C33: under fair polling, if from some point on every handler call of the
\* ConfigurationApply record succeeds (the apply RPC has failed only finitely
\* often), a record with a valid input and parseable credentials eventually
\* is applied and observed as existing and up to date.
C33_EventuallyApplied ==
  (<>[][ApplyCallSucceeds]_vars) =>
    (ApplicableInput ~>
       (/\ ca_status.applied
        /\ ca_pc = "observed"
        /\ ca_obs.resourceExists
        /\ ca_obs.resourceUpToDate))

\* C33 witness: a poll observes as existing and up to date a record that a
\* Create with an acknowledged RPC has applied.
C33_Witness ==
  /\ ApplicableInput
  /\ ca_last.op = "Create"
  /\ ca_last.rpcOk
  /\ ca_status.applied
  /\ ca_pc = "observed"
  /\ ca_obs.resourceExists
  /\ ca_obs.resourceUpToDate

====
